---- MODULE Spec2Model ----
(***************************************************************************)
(* A model of updatemanager.py (tfutils): the Commit value type and its    *)
(* JSON conversions, the remote commit listing, the version-state file,    *)
(* the tarball download / unpack pipeline, the backup filter and the       *)
(* staging-directory cleanup.                                              *)
(*                                                                         *)
(* Python strings are modelled as sequences of one-character strings, so   *)
(* that splitting, substring tests, formatting and regular-expression      *)
(* matching are computed the way the code computes them.                   *)
(***************************************************************************)
EXTENDS Integers, Sequences, FiniteSets, TLC

VARIABLES
    pc,             \* position of the running operation
    ret,            \* outcome (value or raised exception) of the last call
    cmtLatest,      \* first Commit argument
    cmtVersion,     \* second Commit argument
    dictJs,         \* dict produced by Commit.to_json
    remoteCommits,  \* dictJson["commits"] as served by the remote host
    listCommit,     \* github_last_commit's local list
    versionFile,    \* the file at VERSIONS_INFO_PATH
    tarballDir,     \* the entries of TARBALL_DIR_PATH
    todo,           \* entries os.listdir returned that the loop has not visited
    dir0,           \* the entries of TARBALL_DIR_PATH when clean_downloads began
    archive,        \* member names of the tarball the remote host serves
    members,        \* tf.getmembers() not yet extracted
    unpacked,       \* locations the extraction has written
    backupDir,      \* the entries of BACKUP_DIR_PATH
    steps,          \* steps the current deploy_updates run has performed
    now,            \* datetime.datetime.now(), in seconds
    sUser,          \* unpack_tarball's sUser
    sRepo,          \* unpack_tarball's sRepo
    sName,          \* ti.name
    sPath           \* filter_backup's sPath

vars == <<pc, ret, cmtLatest, cmtVersion, dictJs, remoteCommits, listCommit,
          versionFile, tarballDir, todo, dir0, archive, members, unpacked,
          backupDir, steps, now, sUser, sRepo, sName, sPath>>

commitVars == <<cmtLatest, cmtVersion, dictJs>>
remoteVars == <<remoteCommits, listCommit>>
dirVars    == <<tarballDir, todo, dir0>>
deployVars == <<archive, members, unpacked, backupDir, steps, now>>
pathVars   == <<sUser, sRepo, sName, sPath>>

-----------------------------------------------------------------------------
(* Python values and call outcomes *)

None == [tag |-> "None"]
Ok(v) == [tag |-> "ok", val |-> v]
Raise(e) == [tag |-> "raise", exc |-> e]

-----------------------------------------------------------------------------
(* Bounds of the model *)

\* seconds of a minute the modelled timestamps range over: 0..MaxSecond
MaxSecond == 1
\* longest commit list the remote host serves
MaxCommits == 3
\* longest free tail of a generated archive member name
MaxTail == 3
\* deepest generated path below the installation directory
MaxDepth == 3
\* most entries in the staging directory
MaxEntries == 3
\* most members of a served tarball
MaxMembers == 2
\* latest clock reading
MaxNow == 1

-----------------------------------------------------------------------------
(* Characters *)

DigitChars == <<"0", "1", "2", "3", "4", "5", "6", "7", "8", "9">>
Digits == {DigitChars[i] : i \in 1..10}
DigitVal(c) == (CHOOSE i \in 1..10 : DigitChars[i] = c) - 1
Letters == {"a", "b", "c", "d", "e", "f", "g", "h", "i", "j", "k", "l", "m",
            "n", "o", "p", "q", "r", "s", "t", "u", "v", "w", "x", "y", "z",
            "A", "B", "C", "D", "E", "F", "G", "H", "I", "J", "K", "L", "M",
            "N", "O", "P", "Q", "R", "S", "T", "U", "V", "W", "X", "Y", "Z"}
\* the characters \w matches (no LOCALE or UNICODE flag)
WordChars == Letters \cup Digits \cup {"_"}
\* the characters re.escape leaves alone
AlnumChars == Letters \cup Digits

Pow10(w) == CASE w = 0 -> 1 [] w = 1 -> 10 [] w = 2 -> 100 [] w = 3 -> 1000
              [] OTHER -> 10000

\* "%0<w>d" % n, for 0 <= n < 10^w
Pad(n, w) == [i \in 1..w |-> DigitChars[((n \div Pow10(w - i)) % 10) + 1]]

RECURSIVE NumVal(_)
NumVal(ds) == IF ds = <<>> THEN 0
              ELSE NumVal(SubSeq(ds, 1, Len(ds) - 1)) * 10 + DigitVal(ds[Len(ds)])

\* sub in s (Python's `sub in s` on strings)
Contains(sub, s) ==
    \E i \in 1..(Len(s) - Len(sub) + 1) : SubSeq(s, i, i + Len(sub) - 1) = sub

StartsWith(s, p) == Len(p) <= Len(s) /\ SubSeq(s, 1, Len(p)) = p
EndsWith(s, p) == Len(p) <= Len(s) /\ SubSeq(s, Len(s) - Len(p) + 1, Len(s)) = p

-----------------------------------------------------------------------------
(* datetime: a naive datetime is <<year, month, day, hour, minute, second>> *)

\* datetime's rich comparison: lexicographic on the fields
DtCmp(a, b) ==
    IF a = b THEN 0
    ELSE LET i == CHOOSE i \in 1..6 :
                      a[i] # b[i] /\ \A j \in 1..(i - 1) : a[j] = b[j]
         IN  IF a[i] < b[i] THEN -1 ELSE 1

\* datetime.isoformat() of a naive datetime with microsecond 0
isoformat(dt) ==
    Pad(dt[1], 4) \o <<"-">> \o Pad(dt[2], 2) \o <<"-">> \o Pad(dt[3], 2)
    \o <<"T">> \o Pad(dt[4], 2) \o <<":">> \o Pad(dt[5], 2) \o <<":">>
    \o Pad(dt[6], 2)

\* sDt.rsplit(sep, 1)[0]: what precedes the last sep, or all of sDt without one
RSplitHead(sDt, sep) ==
    IF \E i \in 1..Len(sDt) : sDt[i] = sep
    THEN LET last == CHOOSE i \in 1..Len(sDt) :
                         sDt[i] = sep /\ \A j \in (i + 1)..Len(sDt) : sDt[j] # sep
         IN  SubSeq(sDt, 1, last - 1)
    ELSE sDt

\* first position at or after i that holds no digit
DigitRunEnd(s, i) ==
    CHOOSE e \in i..(Len(s) + 1) :
        /\ \A j \in i..(e - 1) : s[j] \in Digits
        /\ (e <= Len(s) => s[e] \notin Digits)

IsLeap(y) == (y % 4 = 0 /\ y % 100 # 0) \/ y % 400 = 0
DaysInMonth(y, m) ==
    CASE m \in {4, 6, 9, 11} -> 30
      [] m = 2 -> IF IsLeap(y) THEN 29 ELSE 28
      [] OTHER -> 31

DATETIME_FORMAT == <<"%Y", "-", "%m", "-", "%d", "T", "%H", ":", "%M", ":", "%S">>

\* what one directive of the format accepts: a digit run of this length and value
DirectiveOk(d, len, val) ==
    CASE d = "%Y" -> len = 4
      [] d = "%m" -> len \in 1..2 /\ val \in 1..12
      [] d = "%d" -> len \in 1..2 /\ val \in 1..31
      [] d = "%H" -> len \in 1..2 /\ val \in 0..23
      [] d = "%M" -> len \in 1..2 /\ val \in 0..59
      [] d = "%S" -> len \in 1..2 /\ val \in 0..61

\* Matches fmt[k..] against s[i..]; the fields read so far are in acc.  Every
\* directive of DATETIME_FORMAT is followed by a literal that is no digit or by the
\* end of the string, so a field is the whole digit run at its position.
RECURSIVE StrptimeFrom(_, _, _, _, _)
StrptimeFrom(s, i, fmt, k, acc) ==
    IF k > Len(fmt)
    THEN IF i = Len(s) + 1 THEN Ok(acc) ELSE Raise("ValueError")
    ELSE IF fmt[k] \in {"%Y", "%m", "%d", "%H", "%M", "%S"}
    THEN IF i > Len(s) THEN Raise("ValueError")
         ELSE LET e == DigitRunEnd(s, i)
                  val == NumVal(SubSeq(s, i, e - 1))
              IN  IF e > i /\ DirectiveOk(fmt[k], e - i, val)
                  THEN StrptimeFrom(s, e, fmt, k + 1, Append(acc, val))
                  ELSE Raise("ValueError")
    ELSE IF i <= Len(s) /\ s[i] = fmt[k]
         THEN StrptimeFrom(s, i + 1, fmt, k + 1, acc)
         ELSE Raise("ValueError")

\* datetime.datetime.strptime(s, fmt): the fields, then the datetime constructor's
\* own range checks
strptime(s, fmt) ==
    LET r == StrptimeFrom(s, 1, fmt, 1, <<>>)
    IN  IF r.tag = "raise" THEN r
        ELSE IF r.val[3] <= DaysInMonth(r.val[1], r.val[2]) /\ r.val[6] <= 59
        THEN r
        ELSE Raise("ValueError")

parse_dt(sDt) == strptime(RSplitHead(sDt, "-"), DATETIME_FORMAT)

-----------------------------------------------------------------------------
(* class Commit *)

Commit(id, sMessage, dt) == [id |-> id, sMessage |-> sMessage, dt |-> dt]

to_json(self) ==
    [id |-> self.id, message |-> self.sMessage, committed_date |-> isoformat(self.dt)]

from_json(dictCommit) ==
    LET dt == parse_dt(dictCommit.committed_date)
    IN  IF dt.tag = "raise" THEN dt
        ELSE Ok(Commit(dictCommit.id, dictCommit.message, dt.val))

\* datetime.fromtimestamp(0.0), with the local zone at UTC
EpochDt == <<1970, 1, 1, 0, 0, 0>>
empty == Commit("", "(No commit found.)", EpochDt)

is_update_available_ge(a, b) == DtCmp(a.dt, b.dt) >= 0

is_update_available(a, b) == DtCmp(a.dt, b.dt) > 0

-----------------------------------------------------------------------------
(* Input domains *)

DateTimes ==
    {<<y, mo, 5, h, 8, s>> : y \in {2010, 2011}, mo \in {3, 11}, h \in {7, 19},
                             s \in 0..MaxSecond}
CommitIds == {"c1", "c2"}
Commits == {Commit(id, "msg", dt) : id \in CommitIds, dt \in DateTimes}

-----------------------------------------------------------------------------
(* SpecCommit: the Commit functions applied to drawn arguments *)

IdleRemote == remoteCommits = <<>> /\ listCommit = <<>>
IdleStore == versionFile = [kind |-> "absent"]
IdleDir == tarballDir = [exists |-> FALSE, entries |-> {}] /\ todo = {} /\ dir0 = {}
IdleDeploy ==
    /\ archive = <<>> /\ members = <<>> /\ unpacked = {}
    /\ backupDir = [exists |-> FALSE, entries |-> {}]
    /\ steps = <<>> /\ now = 0
IdlePath == sUser = <<>> /\ sRepo = <<>> /\ sName = <<>> /\ sPath = <<>>
IdleCommit == cmtLatest = empty /\ cmtVersion = empty /\ dictJs = None

InitCommit ==
    /\ pc = "start" /\ ret = None
    /\ cmtLatest \in Commits \cup {empty} /\ cmtVersion \in Commits \cup {empty}
    /\ dictJs = None
    /\ IdleRemote /\ IdleStore /\ IdleDir /\ IdleDeploy /\ IdlePath

\* is_update_available(cmtLatest, cmtVersion)
IsUpdateAvailableCall ==
    /\ pc = "start"
    /\ ret' = Ok(is_update_available(cmtLatest, cmtVersion))
    /\ pc' = "compared"
    /\ UNCHANGED <<commitVars, remoteVars, versionFile, dirVars, deployVars, pathVars>>

\* dictJs = cmtLatest.to_json()
ToJsonCall ==
    /\ pc = "start"
    /\ dictJs' = to_json(cmtLatest)
    /\ pc' = "serialized"
    /\ UNCHANGED <<ret, cmtLatest, cmtVersion, remoteVars, versionFile, dirVars,
                   deployVars, pathVars>>

\* Commit.from_json(dictJs)
FromJsonCall ==
    /\ pc = "serialized"
    /\ ret' = from_json(dictJs)
    /\ pc' = "parsed"
    /\ UNCHANGED <<commitVars, remoteVars, versionFile, dirVars, deployVars, pathVars>>

NextCommit == IsUpdateAvailableCall \/ ToJsonCall \/ FromJsonCall

SpecCommit == InitCommit /\ [][NextCommit]_vars

\* the calendar order of two datetimes, by day number and second of the day
DayOf(dt) == (dt[1] * 12 + dt[2]) * 31 + dt[3]
SecondOfDay(dt) == (dt[4] * 60 + dt[5]) * 60 + dt[6]
Later(a, b) ==
    DayOf(a) > DayOf(b) \/ (DayOf(a) = DayOf(b) /\ SecondOfDay(a) > SecondOfDay(b))

\* C1: is_update_available(a, b) is true exactly when a's committedAt is strictly
\* later than b's; commits with equal committedAt are never an update, whatever
\* their ids and messages.
C1_UpdateIffStrictlyLater ==
    pc = "compared" =>
        /\ ret.val = Later(cmtLatest.dt, cmtVersion.dt)
        /\ (cmtLatest.dt = cmtVersion.dt => ret.val = FALSE)

\* two different commits of the same instant compared, and no update reported
C1_Witness ==
    /\ pc = "compared"
    /\ cmtLatest.dt = cmtVersion.dt
    /\ cmtLatest.id # cmtVersion.id
    /\ ret = Ok(FALSE)

\* C4: from_json(c.to_json()) succeeds and gives back c's id, message and
\* committedAt, for every commit c with a second-resolution timestamp.
C4_RoundTrip ==
    pc = "parsed" =>
        /\ ret.tag = "ok"
        /\ ret.val.id = cmtLatest.id
        /\ ret.val.sMessage = cmtLatest.sMessage
        /\ ret.val.dt = cmtLatest.dt

-----------------------------------------------------------------------------
(* github_last_commit *)

\* cmp(x, y) on datetimes
cmp(x, y) == DtCmp(x, y)

\* the comparator handed to list.sort: lambda a,b: -cmp(b.dt,a.dt)
sort_cmp(a, b) == 0 - cmp(b.dt, a.dt)

\* list.sort(cmpfunc) is stable and puts a before b when cmpfunc(a, b) < 0:
\* x goes before the first element it compares less than
SortInsert(x, sorted) ==
    LET k == CHOOSE k \in 1..(Len(sorted) + 1) :
                 /\ \A i \in 1..(k - 1) : ~(sort_cmp(x, sorted[i]) < 0)
                 /\ (k <= Len(sorted) => sort_cmp(x, sorted[k]) < 0)
    IN  SubSeq(sorted, 1, k - 1) \o <<x>> \o SubSeq(sorted, k, Len(sorted))

RECURSIVE list_sort(_)
list_sort(l) ==
    IF l = <<>> THEN <<>>
    ELSE SortInsert(l[Len(l)], list_sort(SubSeq(l, 1, Len(l) - 1)))

\* map(Commit.from_json, dictJson["commits"]): the first failure propagates
MapFromJson(dicts) ==
    IF \E i \in 1..Len(dicts) : from_json(dicts[i]).tag = "raise"
    THEN Raise("ValueError")
    ELSE Ok([i \in 1..Len(dicts) |-> from_json(dicts[i]).val])

\* (listCommit and listCommit[0]) or None
HeadOrNone(l) == IF l # <<>> THEN l[1] ELSE None

github_last_commit(dicts) ==
    LET m == MapFromJson(dicts)
    IN  IF m.tag = "raise" THEN m ELSE Ok(HeadOrNone(list_sort(m.val)))

\* the UTC offset the remote host appends to committed_date
RemoteOffset == <<"-", "0", "8", ":", "0", "0">>
RemoteDts == {<<2010, 11, 5, 19, 8, 0>>, <<2011, 3, 5, 7, 8, 0>>, <<2011, 3, 5, 7, 8, 1>>}
RemoteIds == <<"r1", "r2", "r3", "r4", "r5", "r6">>
RemoteDict(k, dt) ==
    [id |-> RemoteIds[k], message |-> "msg",
     committed_date |-> isoformat(dt) \o RemoteOffset]
RemoteLists(maxLen) ==
    UNION {{[k \in 1..n |-> RemoteDict(k, f[k])] : f \in [1..n -> RemoteDts]}
           : n \in 0..maxLen}

InitRemote ==
    /\ pc = "start" /\ ret = None
    /\ remoteCommits \in RemoteLists(MaxCommits) /\ listCommit = <<>>
    /\ IdleCommit /\ IdleStore /\ IdleDir /\ IdleDeploy /\ IdlePath

\* urlopen, json.load and the map over dictJson["commits"]
FetchCommits ==
    /\ pc = "start"
    /\ LET m == MapFromJson(remoteCommits)
       IN  IF m.tag = "raise"
           THEN pc' = "raised" /\ ret' = m /\ UNCHANGED listCommit
           ELSE pc' = "fetched" /\ listCommit' = m.val /\ UNCHANGED ret
    /\ UNCHANGED <<commitVars, remoteCommits, versionFile, dirVars, deployVars, pathVars>>

\* listCommit.sort(...)
SortCommits ==
    /\ pc = "fetched"
    /\ listCommit' = list_sort(listCommit)
    /\ pc' = "sorted"
    /\ UNCHANGED <<ret, commitVars, remoteCommits, versionFile, dirVars, deployVars,
                   pathVars>>

\* return (listCommit and listCommit[0]) or None
ReturnHead ==
    /\ pc = "sorted"
    /\ ret' = Ok(HeadOrNone(listCommit))
    /\ pc' = "returned"
    /\ UNCHANGED <<commitVars, remoteVars, versionFile, dirVars, deployVars, pathVars>>

NextRemote == FetchCommits \/ SortCommits \/ ReturnHead

SpecRemote == InitRemote /\ [][NextRemote]_vars

\* C2: for a non-empty remote commit list the sorted list is latest first, and the
\* commit github_last_commit returns, its head, is at least as late as every
\* commit of the list.
C2_LatestFirst ==
    (pc = "returned" /\ remoteCommits # <<>>) =>
        /\ \A i, j \in 1..Len(listCommit) :
               i < j => ~Later(listCommit[j].dt, listCommit[i].dt)
        /\ ret.val = listCommit[1]
        /\ \A i \in 1..Len(listCommit) : ~Later(listCommit[i].dt, ret.val.dt)

-----------------------------------------------------------------------------
(* The version-state file: load_version_commit, update_version_info *)

\* A file is absent, or holds the JSON documents written to it: <<>> is a file of
\* no bytes, <<d>> the serialization of d.
AbsentFile == [kind |-> "absent"]
FileOf(data) == [kind |-> "file", data |-> data]

\* the handle open(sPath, "wb") returns
outfile == [handle |-> "VERSIONS_INFO_PATH"]
IsFileObject(v) == "handle" \in DOMAIN v

\* json.dump(obj, fp): encodes obj, then writes the chunks to fp.  A file object is
\* not JSON serializable, and the encoder raises before anything is written.
json_dump(obj, fp) ==
    IF IsFileObject(obj) THEN [out |-> Raise("TypeError"), written |-> <<>>]
    ELSE IF ~IsFileObject(fp) THEN [out |-> Raise("AttributeError"), written |-> <<>>]
    ELSE [out |-> Ok(None), written |-> <<obj>>]

\* json.load(infile)
json_load(file) ==
    IF file.data = <<>> THEN Raise("ValueError") ELSE Ok(file.data[1])

load_version_commit(file) ==
    IF file.kind # "file" THEN Ok(empty)
    ELSE LET d == json_load(file)
         IN  IF d.tag = "raise" THEN d ELSE from_json(d.val)

\* update_version_info(cmt): open(sPath, "wb") creates or truncates the file, then
\* json.dump(outfile, dictJs) is called with the file as the object to encode
update_version_info(cmt) ==
    LET js == to_json(cmt)
        d == json_dump(outfile, js)
    IN  [out |-> d.out, file |-> FileOf(d.written)]

\* what the version-state file may hold when an operation starts
StoredDts == {<<2010, 3, 5, 7, 8, 0>>, <<2011, 11, 5, 19, 8, 0>>}
StoredDicts ==
    {[id |-> "c0", message |-> "msg", committed_date |-> isoformat(dt) \o off]
        : dt \in StoredDts, off \in {<<>>, RemoteOffset}}
StoredFiles == {AbsentFile} \cup {FileOf(<<d>>) : d \in StoredDicts}

InitStore ==
    /\ pc = "start" /\ ret = None
    /\ cmtLatest = empty /\ cmtVersion \in Commits /\ dictJs = None
    /\ versionFile \in StoredFiles
    /\ IdleRemote /\ IdleDir /\ IdleDeploy /\ IdlePath

\* update_version_info(cmtVersion)
UpdateVersionInfo ==
    /\ pc = "start"
    /\ LET u == update_version_info(cmtVersion)
       IN  versionFile' = u.file /\ ret' = u.out
    /\ pc' = "saved"
    /\ UNCHANGED <<commitVars, remoteVars, dirVars, deployVars, pathVars>>

\* load_version_commit()
LoadVersionCommit ==
    /\ pc \in {"start", "saved"}
    /\ ret' = load_version_commit(versionFile)
    /\ pc' = IF pc = "saved" THEN "reloaded" ELSE "loaded"
    /\ UNCHANGED <<commitVars, remoteVars, versionFile, dirVars, deployVars, pathVars>>

NextStore == UpdateVersionInfo \/ LoadVersionCommit

SpecStore == InitStore /\ [][NextStore]_vars

\* C5: update_version_info(c) completes and leaves the file holding the
\* serialized form of c, whatever it held before, and the next
\* load_version_commit() returns a record with c's id, message and committedAt.
C5_SaveThenLoad ==
    /\ pc = "saved" =>
           /\ ret.tag # "raise"
           /\ versionFile = FileOf(<<to_json(cmtVersion)>>)
    /\ pc = "reloaded" =>
           /\ ret.tag = "ok"
           /\ ret.val.id = cmtVersion.id
           /\ ret.val.sMessage = cmtVersion.sMessage
           /\ ret.val.dt = cmtVersion.dt

-----------------------------------------------------------------------------
(* Regular expressions: the subset of re the module's patterns use *)

\* re.escape: a backslash before every character that is not alphanumeric
re_escape_none(str) == str

RECURSIVE re_escape(_)
re_escape(str) ==
    IF str = <<>> THEN <<>>
    ELSE (IF str[1] \in AlnumChars THEN <<str[1]>> ELSE <<"\\", str[1]>>)
         \o re_escape(SubSeq(str, 2, Len(str)))

Lit(c) == [cls |-> "lit", c |-> c, plus |-> FALSE]
DigitAtom == [cls |-> "digit", c |-> "", plus |-> FALSE]
WordAtom == [cls |-> "word", c |-> "", plus |-> FALSE]
AnyAtom == [cls |-> "any", c |-> "", plus |-> FALSE]

\* the atoms of the pattern source src[i..]: \w and \d are classes, a backslash
\* before any other character makes it a literal, a bare "." is any character
\* but a newline, "+" repeats the atom before it, "{n}" takes it n times, any
\* other character is itself
RECURSIVE CompileFrom(_, _, _)
CompileFrom(src, i, acc) ==
    IF i > Len(src) THEN acc
    ELSE IF src[i] = "\\" /\ i < Len(src)
    THEN CompileFrom(src, i + 2,
             Append(acc, CASE src[i + 1] = "w" -> WordAtom
                           [] src[i + 1] = "d" -> DigitAtom
                           [] OTHER -> Lit(src[i + 1])))
    ELSE IF src[i] = "+" /\ acc # <<>>
    THEN CompileFrom(src, i + 1, [acc EXCEPT ![Len(acc)].plus = TRUE])
    ELSE IF /\ src[i] = "{" /\ acc # <<>> /\ i + 2 <= Len(src)
            /\ src[i + 1] \in Digits /\ src[i + 2] = "}"
    THEN CompileFrom(src, i + 3,
             acc \o [j \in 1..(DigitVal(src[i + 1]) - 1) |-> acc[Len(acc)]])
    ELSE IF src[i] = "."
    THEN CompileFrom(src, i + 1, Append(acc, AnyAtom))
    ELSE CompileFrom(src, i + 1, Append(acc, Lit(src[i])))

\* re.compile(src): a leading "^" and a trailing "$" are anchors
re_compile(src) ==
    LET anchored == src # <<>> /\ src[1] = "^"
        body == IF anchored THEN SubSeq(src, 2, Len(src)) ELSE src
        dollar == body # <<>> /\ body[Len(body)] = "$"
                  /\ (Len(body) = 1 \/ body[Len(body) - 1] # "\\")
        inner == IF dollar THEN SubSeq(body, 1, Len(body) - 1) ELSE body
    IN  [anchored |-> anchored, dollar |-> dollar, atoms |-> CompileFrom(inner, 1, <<>>)]

AtomOk(a, c) ==
    CASE a.cls = "lit" -> c = a.c
      [] a.cls = "digit" -> c \in Digits
      [] a.cls = "word" -> c \in WordChars
      [] a.cls = "any" -> c # "\n"

\* "$" matches at the end of the string and just before a newline that ends it
DollarOk(str, i) == i = Len(str) + 1 \/ (i = Len(str) /\ str[i] = "\n")

\* The position after the match of atoms[k..] at str[i..] that the backtracking
\* matcher finds first (a repeated atom takes the longest run the rest allows),
\* or 0 when there is none.
RECURSIVE MatchFrom(_, _, _, _)
MatchFrom(re, k, str, i) ==
    IF k > Len(re.atoms)
    THEN IF re.dollar /\ ~DollarOk(str, i) THEN 0 ELSE i
    ELSE LET a == re.atoms[k]
         IN  IF ~a.plus
             THEN IF i <= Len(str) /\ AtomOk(a, str[i])
                  THEN MatchFrom(re, k + 1, str, i + 1)
                  ELSE 0
             ELSE LET ns == {n \in 1..(Len(str) - i + 1) :
                                /\ \A j \in i..(i + n - 1) : AtomOk(a, str[j])
                                /\ MatchFrom(re, k + 1, str, i + n) # 0}
                  IN  IF ns = {} THEN 0
                      ELSE MatchFrom(re, k + 1, str,
                               i + (CHOOSE n \in ns : \A m \in ns : m <= n))

\* pattern.match(str) is not None
re_match(re, str) == MatchFrom(re, 1, str, 1) # 0

\* pattern.sub(repl, str, 1): the leftmost match replaced, once
re_sub_once(re, repl, str) ==
    LET starts == IF re.anchored THEN {1} ELSE 1..(Len(str) + 1)
        hits == {i \in starts : MatchFrom(re, 1, str, i) # 0}
    IN  IF hits = {} THEN str
        ELSE LET i == CHOOSE i \in hits : \A j \in hits : i <= j
             IN  SubSeq(str, 1, i - 1) \o repl
                 \o SubSeq(str, MatchFrom(re, 1, str, i), Len(str))

-----------------------------------------------------------------------------
(* unpack_tarball: the rewrite of a member name *)

S_tfutils == <<"t", "f", "u", "t", "i", "l", "s">>

\* r'^%s-%s-\w+' % (re.escape(sUser), re.escape(sRepo))
sReSrc(user, repo) ==
    <<"^">> \o re_escape(user) \o <<"-">> \o re_escape(repo) \o <<"-", "\\", "w", "+">>

\* ti.name = rePrefix.sub("tfutils", ti.name, 1)
rewrite_name(user, repo, name) ==
    re_sub_once(re_compile(sReSrc(user, repo)), S_tfutils, name)

S_alice == <<"a", "l", "i", "c", "e">>
S_myrepo == <<"m", "y", "r", "e", "p", "o">>
S_hash == <<"a", "b", "c", "d", "e", "f", "1">>
S_src_main_go == <<"/", "s", "r", "c", "/", "m", "a", "i", "n", ".", "g", "o">>
\* alice-myrepo-abcdef1/src/main.go
ExampleMember == S_alice \o <<"-">> \o S_myrepo \o <<"-">> \o S_hash \o S_src_main_go

Users == {S_alice, <<"u">>}
Repos == {S_myrepo, <<"r", ".", "x">>}

\* the characters generated name tails are made of
TailChars == {"a", "_", "-", ".", "/"}
RECURSIVE Strings(_, _)
Strings(chars, n) ==
    IF n = 0 THEN {<<>>}
    ELSE LET shorter == Strings(chars, n - 1)
         IN  shorter \cup {Append(t, c) : t \in shorter, c \in chars}

\* repo with every character re.escape would escape replaced by a letter
Unescapable(str) == [i \in 1..Len(str) |-> IF str[i] \in AlnumChars THEN str[i] ELSE "a"]

\* beginnings of generated member names: none, the snapshot prefix, the prefix
\* without its last dash, the prefix after another character, and the prefix with
\* the repo's special characters replaced
NamePrefixes(user, repo) ==
    {<<>>,
     user \o <<"-">> \o repo \o <<"-">>,
     user \o <<"-">> \o repo,
     <<"x">> \o user \o <<"-">> \o repo \o <<"-">>,
     user \o <<"-">> \o Unescapable(repo) \o <<"-">>}

MemberNames(user, repo) ==
    {ExampleMember}
    \cup {pre \o tail : pre \in NamePrefixes(user, repo), tail \in Strings(TailChars, MaxTail)}

InitUnpack ==
    /\ pc = "start" /\ ret = None
    /\ sUser \in Users /\ sRepo \in Repos
    /\ sName \in MemberNames(sUser, sRepo)
    /\ sPath = <<>>
    /\ IdleCommit /\ IdleRemote /\ IdleStore /\ IdleDir /\ IdleDeploy

\* the loop body's rename of one member
RenameMember ==
    /\ pc = "start"
    /\ ret' = Ok(rewrite_name(sUser, sRepo, sName))
    /\ pc' = "renamed"
    /\ UNCHANGED <<commitVars, remoteVars, versionFile, dirVars, deployVars, pathVars>>

NextUnpack == RenameMember

SpecUnpack == InitUnpack /\ [][NextUnpack]_vars

\* the first segment of a path: what precedes its first "/"
FirstSegment(name) ==
    IF \E i \in 1..Len(name) : name[i] = "/"
    THEN SubSeq(name, 1, (CHOOSE i \in 1..Len(name) :
                              name[i] = "/" /\ \A j \in 1..(i - 1) : name[j] # "/") - 1)
    ELSE name

SnapshotPrefix == sUser \o <<"-">> \o sRepo \o <<"-">>

\* the length of the longest run of word characters of name from position i
WordRun(name, i) ==
    CHOOSE n \in 0..(Len(name) - i + 1) :
        /\ \A j \in i..(i + n - 1) : name[j] \in WordChars
        /\ (i + n <= Len(name) => name[i + n] \notin WordChars)

\* C7 as stated: when the first segment is <user>-<repo>-<anything>, the whole
\* first segment is replaced by "tfutils" and the rest of the path is kept;
\* any other path is unchanged.
C7_WholeSegmentReplaced ==
    pc = "renamed" =>
        LET first == FirstSegment(sName)
        IN  IF StartsWith(first, SnapshotPrefix) /\ Len(first) > Len(SnapshotPrefix)
            THEN ret.val = S_tfutils \o SubSeq(sName, Len(first) + 1, Len(sName))
            ELSE ret.val = sName

\* C7, amended: when the name begins with <user>-<repo>- and at least one word
\* character ([A-Za-z0-9_]), that beginning up to the end of the run of word
\* characters is replaced by "tfutils", once, and all that follows is kept
\* verbatim; any other name is unchanged.
C7_WordPrefixReplaced ==
    pc = "renamed" =>
        LET n == Len(SnapshotPrefix)
        IN  IF StartsWith(sName, SnapshotPrefix) /\ WordRun(sName, n + 1) >= 1
            THEN ret.val = S_tfutils
                     \o SubSeq(sName, n + WordRun(sName, n + 1) + 1, Len(sName))
            ELSE ret.val = sName

\* alice-myrepo-abcdef1/src/main.go has become tfutils/src/main.go
C7_Witness ==
    /\ pc = "renamed"
    /\ sUser = S_alice /\ sRepo = S_myrepo
    /\ sName = ExampleMember
    /\ ret.val = S_tfutils \o S_src_main_go

-----------------------------------------------------------------------------
(* Paths *)

\* os.path.dirname
dirname(p) ==
    IF \E i \in 1..Len(p) : p[i] = "/"
    THEN LET last == CHOOSE i \in 1..Len(p) :
                         p[i] = "/" /\ \A j \in (i + 1)..Len(p) : p[j] # "/"
             head == SubSeq(p, 1, last)
         IN  IF \A i \in 1..Len(head) : head[i] = "/" THEN head
             ELSE SubSeq(head, 1, CHOOSE e \in 1..Len(head) :
                                      head[e] # "/" /\ \A j \in (e + 1)..Len(head) : head[j] = "/")
    ELSE <<>>

\* os.path.basename
basename(p) ==
    IF \E i \in 1..Len(p) : p[i] = "/"
    THEN LET last == CHOOSE i \in 1..Len(p) :
                         p[i] = "/" /\ \A j \in (i + 1)..Len(p) : p[j] # "/"
         IN  SubSeq(p, last + 1, Len(p))
    ELSE p

\* os.path.join(a, b)
path_join(a, b) ==
    IF b # <<>> /\ b[1] = "/" THEN b
    ELSE IF a = <<>> \/ a[Len(a)] = "/" THEN a \o b
    ELSE a \o <<"/">> \o b

\* the segments of a path, split at "/"
RECURSIVE Segments(_)
Segments(p) ==
    IF \E i \in 1..Len(p) : p[i] = "/"
    THEN LET first == CHOOSE i \in 1..Len(p) :
                          p[i] = "/" /\ \A j \in 1..(i - 1) : p[j] # "/"
         IN  <<SubSeq(p, 1, first - 1)>> \o Segments(SubSeq(p, first + 1, Len(p)))
    ELSE <<p>>

\* the location the operating system resolves an absolute path to: empty and "."
\* segments are skipped, ".." steps to the parent (the root is its own parent)
RECURSIVE ResolveFrom(_, _)
ResolveFrom(segs, loc) ==
    IF segs = <<>> THEN loc
    ELSE LET seg == segs[1]
             rest == SubSeq(segs, 2, Len(segs))
         IN  IF seg = <<>> \/ seg = <<".">> THEN ResolveFrom(rest, loc)
             ELSE IF seg = <<".", ".">>
             THEN ResolveFrom(rest, IF loc = <<>> THEN loc
                                    ELSE SubSeq(loc, 1, Len(loc) - 1))
             ELSE ResolveFrom(rest, Append(loc, seg))

Resolve(p) == ResolveFrom(Segments(p), <<>>)

\* path.abspath(__file__) of an installation at /opt/tfutils
MODULE_FILE ==
    <<"/", "o", "p", "t", "/", "t", "f", "u", "t", "i", "l", "s", "/",
      "u", "p", "d", "a", "t", "e", "m", "a", "n", "a", "g", "e", "r", ".", "p", "y">>
S_versions == <<"v", "e", "r", "s", "i", "o", "n", "s">>
S_tarballs == <<"t", "a", "r", "b", "a", "l", "l", "s">>
S_backups == <<"b", "a", "c", "k", "u", "p", "s">>

VERSIONS_DIR_PATH == path_join(dirname(MODULE_FILE), S_versions)
TARBALL_DIR_PATH == path_join(VERSIONS_DIR_PATH, S_tarballs)
BACKUP_DIR_PATH == path_join(VERSIONS_DIR_PATH, S_backups)
UNPACK_DIR_PATH == dirname(dirname(MODULE_FILE))
BACKUP_SOURCE_DIR_PATH == dirname(MODULE_FILE)

-----------------------------------------------------------------------------
(* filter_backup, backup_current *)

S_slash_build == <<"/", "b", "u", "i", "l", "d">>
S_git_slash == <<".", "g", "i", "t", "/">>
S_pyc == <<".", "p", "y", "c">>

filter_backup(path) ==
    \/ Contains(BACKUP_DIR_PATH, path)
    \/ Contains(TARBALL_DIR_PATH, path)
    \/ Contains(S_slash_build, path)
    \/ Contains(S_git_slash, path)
    \/ EndsWith(path, S_pyc)

\* tf.add(sRoot, basename(sRoot), exclude=filter_backup) descends from sRoot and
\* stops at every path the filter excludes: a file is archived when neither it
\* nor a directory above it, from sRoot down, is excluded.  The result is the set
\* of archive names.
ArchivedNames(sRoot, files) ==
    {basename(sRoot) \o SubSeq(f, Len(sRoot) + 1, Len(f)) :
        f \in {g \in files :
                  /\ StartsWith(g, sRoot \o <<"/">>)
                  /\ \A i \in Len(sRoot)..Len(g) :
                         (i = Len(g) \/ g[i + 1] = "/") => ~filter_backup(SubSeq(g, 1, i))}}

\* datetime.datetime.now() at clock reading n
NowDt(n) == <<2024, 3, 5, 7, 8, 9 + n>>

Stamp(dt) ==
    Pad(dt[1], 4) \o <<"_">> \o Pad(dt[2], 2) \o <<"_">> \o Pad(dt[3], 2) \o <<"_">>
    \o Pad(dt[4], 2) \o <<"_">> \o Pad(dt[5], 2) \o <<"_">> \o Pad(dt[6], 2)

S_tar_gz == <<".", "t", "a", "r", ".", "g", "z">>
S_tarball_ == <<"t", "a", "r", "b", "a", "l", "l", "_">>
S_backup_ == <<"b", "a", "c", "k", "u", "p", "_">>

tarball_filename(dt) == S_tarball_ \o Stamp(dt) \o S_tar_gz
backup_name(dt) == S_backup_ \o Stamp(dt) \o S_tar_gz

\* A directory is absent, or holds entries: files and directories by name
NoDir == [exists |-> FALSE, entries |-> {}]
DirOf(entries) == [exists |-> TRUE, entries |-> entries]
FileEntry(name) == [name |-> name, kind |-> "file"]
DirEntry(name) == [name |-> name, kind |-> "dir"]
\* dir with a file written at name (the directory made first when absent)
WithFile(dir, e) == DirOf({x \in dir.entries : x.name # e.name} \cup {e})

\* a backup archive in BACKUP_DIR_PATH and the archive names it holds
BackupEntry(name, files) == [name |-> name, kind |-> "file", files |-> files]

\* backup_current(sRoot) at clock reading n, with `files` the files on disk
backup_current(sRoot, dir, n, files) ==
    WithFile(dir, BackupEntry(backup_name(NowDt(n)), ArchivedNames(sRoot, files)))

S_build == <<"b", "u", "i", "l", "d">>
S_git == <<".", "g", "i", "t">>
PathSegments ==
    {S_build, S_build \o <<"e", "r">>, S_git, <<"a">> \o S_git, <<"s", "r", "c">>,
     <<"m", "a", "i", "n", ".", "g", "o">>, <<"m", "o", "d", "u", "l", "e">> \o S_pyc,
     S_versions, S_backups, S_backups \o <<"x">>, S_tarballs, <<"x">> \o S_tar_gz}

\* the paths of up to n segments below root
RECURSIVE PathsBelow(_, _)
PathsBelow(root, n) ==
    IF n = 0 THEN {}
    ELSE LET level == {path_join(root, seg) : seg \in PathSegments}
         IN  level \cup UNION {PathsBelow(q, n - 1) : q \in level}

InitBackup ==
    /\ pc = "start" /\ ret = None
    /\ sPath \in PathsBelow(BACKUP_SOURCE_DIR_PATH, MaxDepth)
    /\ sUser = <<>> /\ sRepo = <<>> /\ sName = <<>>
    /\ IdleCommit /\ IdleRemote /\ IdleStore /\ IdleDir /\ IdleDeploy

\* filter_backup(sPath)
FilterBackupCall ==
    /\ pc = "start"
    /\ ret' = Ok(filter_backup(sPath))
    /\ pc' = "filtered"
    /\ UNCHANGED <<commitVars, remoteVars, versionFile, dirVars, deployVars, pathVars>>

\* backup_current(BACKUP_SOURCE_DIR_PATH), with sPath the one file on disk
BackupOneFile ==
    /\ pc = "start"
    /\ backupDir' = backup_current(BACKUP_SOURCE_DIR_PATH, backupDir, now, {sPath})
    /\ ret' = Ok(path_join(BACKUP_DIR_PATH, backup_name(NowDt(now))))
    /\ pc' = "backed_up"
    /\ UNCHANGED <<commitVars, remoteVars, versionFile, dirVars, archive, members,
                   unpacked, steps, now, pathVars>>

NextBackup == FilterBackupCall \/ BackupOneFile

SpecBackup == InitBackup /\ [][NextBackup]_vars

\* path lies below directory dir
Below(path, dir) == StartsWith(path, dir \o <<"/">>)
\* path lies below a segment named seg
BelowSegment(path, seg) ==
    \E i \in 1..(Len(Segments(path)) - 1) : Segments(path)[i] = seg
\* what the exclusion policy names: below the backups or the staging directory,
\* below a segment named build or .git, or a .pyc file
PolicyExcludes(path) ==
    \/ Below(path, BACKUP_DIR_PATH) \/ Below(path, TARBALL_DIR_PATH)
    \/ BelowSegment(path, S_build) \/ BelowSegment(path, S_git)
    \/ EndsWith(path, S_pyc)
\* the policy's directories themselves, which it leaves open
PolicyBorder(path) ==
    \/ path \in {BACKUP_DIR_PATH, TARBALL_DIR_PATH}
    \/ Segments(path)[Len(Segments(path))] \in {S_build, S_git}

\* C9: filter_backup excludes a path below the backups directory, below the
\* staging directory, below a segment named build or .git, or ending in .pyc,
\* and includes every other path.
C9_ExclusionPolicy ==
    pc = "filtered" =>
        /\ PolicyExcludes(sPath) => ret.val = TRUE
        /\ (~PolicyExcludes(sPath) /\ ~PolicyBorder(sPath)) => ret.val = FALSE

-----------------------------------------------------------------------------
(* clean_downloads *)

\* r"^tarball_\d{4}_\d{2}_\d{2}_\d{2}_\d{2}_\d{2}\.tar\.gz$"
D4 == <<"\\", "d", "{", "4", "}">>
D2 == <<"_", "\\", "d", "{", "2", "}">>
TARBALL_RE_SRC ==
    <<"^">> \o S_tarball_ \o D4 \o D2 \o D2 \o D2 \o D2 \o D2
    \o <<"\\", ".", "t", "a", "r", "\\", ".", "g", "z", "$">>
TARBALL_RE == re_compile(TARBALL_RE_SRC)

\* what the staging directory may hold: downloaded archives, near misses of their
\* names, unrelated files, and a directory
Tarball0 == tarball_filename(NowDt(0))
StagingEntries ==
    {FileEntry(Tarball0),
     FileEntry(tarball_filename(NowDt(1))),
     DirEntry(tarball_filename(NowDt(1))),
     FileEntry(Tarball0 \o <<"\n">>),
     FileEntry(<<"x">> \o Tarball0),
     FileEntry(SubSeq(Tarball0, 1, Len(Tarball0) - 1)),
     FileEntry([Tarball0 EXCEPT ![Len(S_tarball_) + 1] = "x"]),
     FileEntry(backup_name(NowDt(0))),
     FileEntry(<<"n", "o", "t", "e", "s">>)}
StagingDirs ==
    {NoDir} \cup
    {DirOf(E) : E \in {F \in SUBSET StagingEntries :
                          /\ Cardinality(F) <= MaxEntries
                          /\ \A x, y \in F : x.name = y.name => x = y}}

InitClean ==
    /\ pc = "start" /\ ret = None
    /\ tarballDir \in StagingDirs /\ todo = {} /\ dir0 = {}
    /\ IdleCommit /\ IdleRemote /\ IdleStore /\ IdleDeploy /\ IdlePath

\* os.listdir(TARBALL_DIR_PATH)
CleanListdir ==
    /\ pc = "start"
    /\ IF tarballDir.exists
       THEN /\ todo' = tarballDir.entries
            /\ dir0' = tarballDir.entries
            /\ pc' = "cleaning"
            /\ UNCHANGED ret
       ELSE /\ ret' = Raise("OSError")
            /\ pc' = "raised"
            /\ UNCHANGED <<todo, dir0>>
    /\ UNCHANGED <<commitVars, remoteVars, versionFile, tarballDir, deployVars, pathVars>>

\* one turn of the loop, in whatever order os.listdir gave: os.unlink removes a
\* file and raises OSError on a directory
CleanVisit ==
    /\ pc = "cleaning"
    /\ \E e \in todo :
          /\ todo' = todo \ {e}
          /\ IF ~re_match(TARBALL_RE, e.name)
             THEN UNCHANGED <<pc, ret, tarballDir>>
             ELSE IF e.kind = "dir"
             THEN pc' = "raised" /\ ret' = Raise("OSError") /\ UNCHANGED tarballDir
             ELSE /\ tarballDir' = DirOf(tarballDir.entries \ {e})
                  /\ UNCHANGED <<pc, ret>>
    /\ UNCHANGED <<commitVars, remoteVars, versionFile, dir0, deployVars, pathVars>>

CleanReturn ==
    /\ pc = "cleaning" /\ todo = {}
    /\ pc' = "cleaned" /\ ret' = Ok(None)
    /\ UNCHANGED <<commitVars, remoteVars, versionFile, dirVars, deployVars, pathVars>>

NextClean == CleanListdir \/ CleanVisit \/ CleanReturn

SpecClean == InitClean /\ [][NextClean]_vars

\* tarball_YYYY_MM_DD_HH_MM_SS.tar.gz, a digit at every "#"
CanonicalMask ==
    S_tarball_
    \o <<"#", "#", "#", "#", "_", "#", "#", "_", "#", "#", "_", "#", "#", "_",
         "#", "#", "_", "#", "#">>
    \o S_tar_gz
Canonical(name) ==
    /\ Len(name) = Len(CanonicalMask)
    /\ \A i \in 1..Len(name) :
           IF CanonicalMask[i] = "#" THEN name[i] \in Digits ELSE name[i] = CanonicalMask[i]

\* C10: when clean_downloads has ended, the staging directory holds exactly the
\* entries it held before that are not files with a canonical archive name.
C10_DeletesExactlyCanonical ==
    (pc \in {"cleaned", "raised"} /\ tarballDir.exists) =>
        tarballDir.entries = {e \in dir0 : ~(e.kind = "file" /\ Canonical(e.name))}

-----------------------------------------------------------------------------
(* check_for_updates, download_tarball, unpack_tarball, deploy_updates *)

\* load_origin_config(): the parsed origin.js
OriginConfig == [user |-> S_alice, repo |-> S_myrepo, branches |-> [master |-> "master"]]

\* check_for_updates(): the latest commit is fetched first, then the version
\* commit is loaded; is_update_available reads .dt of both
check_for_updates(dicts, file) ==
    LET latest == github_last_commit(dicts)
    IN  IF latest.tag = "raise" THEN latest
        ELSE LET version == load_version_commit(file)
             IN  IF version.tag = "raise" THEN version
                 ELSE IF latest.val = None THEN Raise("AttributeError")
                 ELSE Ok(is_update_available(latest.val, version.val))

\* tf.extract(ti, sUnpackOnto) writes at os.path.join(sUnpackOnto, ti.name), with
\* no check of the name
ExtractTarget(sUnpackOnto, name) == Resolve(path_join(sUnpackOnto, name))

\* one turn of unpack_tarball's loop: the location member `name` is written to
UnpackTarget(sUnpackOnto, user, repo, name) ==
    ExtractTarget(sUnpackOnto, rewrite_name(user, repo, name))

RECURSIVE JoinSegments(_)
JoinSegments(loc) ==
    IF loc = <<>> THEN <<>> ELSE <<"/">> \o loc[1] \o JoinSegments(SubSeq(loc, 2, Len(loc)))

SnapshotDir == S_alice \o <<"-">> \o S_myrepo \o <<"-">> \o S_hash
\* members a served tarball may hold
ServedMembers ==
    {ExampleMember,
     SnapshotDir \o <<"/", "u", "p", "d", "a", "t", "e", "m", "a", "n", "a", "g", "e", "r", ".", "p", "y">>,
     SnapshotDir \o <<"/", ".", ".", "/", ".", ".", "/", "e", "v", "i", "l">>,
     <<"/", "e", "t", "c", "/", "e", "v", "i", "l">>}
ServedArchives == UNION {[1..n -> ServedMembers] : n \in 1..MaxMembers}

\* the files of the installation before any deploy
InstalledFiles ==
    {MODULE_FILE, MODULE_FILE \o <<"c">>,
     path_join(BACKUP_SOURCE_DIR_PATH, S_git \o <<"/", "H", "E", "A", "D">>)}

\* every file on disk
DiskFiles ==
    InstalledFiles
    \cup {JoinSegments(loc) : loc \in unpacked}
    \cup {path_join(TARBALL_DIR_PATH, e.name) : e \in tarballDir.entries}
    \cup {path_join(BACKUP_DIR_PATH, e.name) : e \in backupDir.entries}

InitDeploy ==
    /\ pc = "idle" /\ ret = None
    /\ remoteCommits \in RemoteLists(1) /\ listCommit = <<>>
    /\ versionFile \in {AbsentFile} \cup {FileOf(<<d>>) : d \in {x \in StoredDicts :
                                              x.committed_date = isoformat(<<2010, 3, 5, 7, 8, 0>>) \o RemoteOffset}}
    /\ tarballDir \in {NoDir, DirOf({})} /\ todo = {} /\ dir0 = {}
    /\ archive \in ServedArchives /\ members = <<>> /\ unpacked = {}
    /\ backupDir = NoDir /\ steps = <<>> /\ now = 0
    /\ IdleCommit /\ IdlePath

\* a second passes
Tick ==
    /\ pc = "idle" /\ now < MaxNow
    /\ now' = now + 1
    /\ UNCHANGED <<pc, ret, commitVars, remoteVars, versionFile, dirVars, archive,
                   members, unpacked, backupDir, steps, pathVars>>

\* main(): print backup_current(BACKUP_SOURCE_DIR_PATH)
BackupCurrent ==
    /\ pc \in {"idle", "deployed"}
    /\ backupDir' = backup_current(BACKUP_SOURCE_DIR_PATH, backupDir, now, DiskFiles)
    /\ ret' = Ok(path_join(BACKUP_DIR_PATH, backup_name(NowDt(now))))
    /\ UNCHANGED <<pc, commitVars, remoteVars, versionFile, dirVars, archive, members,
                   unpacked, steps, now, pathVars>>

\* check_for_updates()
CheckForUpdates ==
    /\ pc \in {"idle", "deployed"}
    /\ ret' = check_for_updates(remoteCommits, versionFile)
    /\ pc' = IF pc = "idle" THEN "checked" ELSE "rechecked"
    /\ UNCHANGED <<commitVars, remoteVars, versionFile, dirVars, deployVars, pathVars>>

\* deploy_updates() begins: load_origin_config()
DeployLoadConfig ==
    /\ pc = "idle"
    /\ pc' = "download"
    /\ steps' = <<>>
    /\ sUser' = OriginConfig.user /\ sRepo' = OriginConfig.repo
    /\ UNCHANGED <<ret, commitVars, remoteVars, versionFile, dirVars, archive, members,
                   unpacked, backupDir, now, sName, sPath>>

\* download_tarball(dictOriginConfig, "master"): the staging directory is made
\* when absent and the snapshot retrieved into it
DownloadTarball ==
    /\ pc = "download"
    /\ tarballDir' = WithFile(tarballDir, FileEntry(tarball_filename(NowDt(now))))
    /\ members' = archive
    /\ steps' = Append(steps, "fetch")
    /\ pc' = "unpack"
    /\ UNCHANGED <<ret, commitVars, remoteVars, versionFile, todo, dir0, archive,
                   unpacked, backupDir, now, pathVars>>

\* urllib.urlretrieve fails
DownloadFails ==
    /\ pc = "download"
    /\ tarballDir' = DirOf(tarballDir.entries)
    /\ ret' = Raise("IOError")
    /\ pc' = "failed"
    /\ UNCHANGED <<commitVars, remoteVars, versionFile, todo, dir0, deployVars, pathVars>>

\* one turn of unpack_tarball's loop: rename the member, extract it
UnpackMember ==
    /\ pc = "unpack" /\ members # <<>>
    /\ sName' = rewrite_name(sUser, sRepo, members[1])
    /\ unpacked' = unpacked \cup {UnpackTarget(UNPACK_DIR_PATH, sUser, sRepo, members[1])}
    /\ members' = SubSeq(members, 2, Len(members))
    /\ steps' = IF \E i \in 1..Len(steps) : steps[i] = "extract" THEN steps
                ELSE Append(steps, "extract")
    /\ UNCHANGED <<pc, ret, commitVars, remoteVars, versionFile, dirVars, archive,
                   backupDir, now, sUser, sRepo, sPath>>

\* unpack_tarball and deploy_updates return
DeployReturn ==
    /\ pc = "unpack" /\ members = <<>>
    /\ pc' = "deployed"
    /\ ret' = Ok(None)
    /\ UNCHANGED <<commitVars, remoteVars, versionFile, dirVars, deployVars, pathVars>>

NextDeploy ==
    \/ Tick \/ BackupCurrent \/ CheckForUpdates
    \/ DeployLoadConfig \/ DownloadTarball \/ DownloadFails \/ UnpackMember
    \/ DeployReturn

SpecDeploy == InitDeploy /\ [][NextDeploy]_vars

\* C3: in every run of deploy_updates a backup is made before the snapshot is
\* fetched, and nothing is extracted before that backup.
C3_BackupBeforeFetchAndExtract ==
    \A i \in 1..Len(steps) :
        steps[i] \in {"fetch", "extract"} => \E j \in 1..(i - 1) : steps[j] = "backup"

\* the latest commit of the remote branch: the one the deployed snapshot is of
IsLatestRemote(d) ==
    /\ \E i \in 1..Len(remoteCommits) : remoteCommits[i] = d
    /\ \A i \in 1..Len(remoteCommits) :
           ~Later(from_json(remoteCommits[i]).val.dt, from_json(d).val.dt)

\* C6: after a deploy that completed without error the version-state file
\* records the deployed commit, and a check_for_updates run right after it
\* returns false.
C6_DeployPersistsVersion ==
    /\ (pc = "deployed" /\ remoteCommits # <<>>) =>
           /\ versionFile.kind = "file"
           /\ versionFile.data # <<>>
           /\ IsLatestRemote(versionFile.data[1])
    /\ (pc = "rechecked" /\ remoteCommits # <<>>) =>
           /\ ret.tag = "ok"
           /\ ret.val = FALSE

\* C8: every location the extraction has written lies under the destination
\* root.
C8_ExtractionStaysUnderRoot ==
    \A loc \in unpacked : StartsWith(loc, Resolve(UNPACK_DIR_PATH))

====
